---- MODULE Spec2Model ----
(***************************************************************************)
(* Model of the Todo API of src/main.py: a FastAPI application with five   *)
(* handlers (list, get, create, update, delete) over one SQLite table,     *)
(* every handler running inside the get_db_connection context manager.     *)
(*                                                                         *)
(* Three specifications share the same SQL operators:                      *)
(*   Spec      : one event loop; the handlers are `async def` without any  *)
(*               await, so each request is one atomic action.              *)
(*   SpecFault : one worker, one action per statement of a handler and of  *)
(*               get_db_connection, with a storage failure possible at     *)
(*               every statement and at the commit.                        *)
(*   SpecConc  : two worker processes on the same database file, one       *)
(*               action per statement, SQLite's write lock between them,   *)
(*               a statement or commit that has to wait for the other      *)
(*               worker going on after it or giving up at the timeout.     *)
(***************************************************************************)
EXTENDS Integers, Sequences, FiniteSets, TLC

(* ------------------------------ bounds -------------------------------- *)
\* largest value the AUTOINCREMENT counter may reach in the model
MaxId == 2

\* texts a request may carry as content; "" is the empty text
Contents == {"", "a", "b"}

\* a field of a JSON request body: left out, sent as null, or sent with a
\* value
Absent == [t |-> "absent"]
Null == [t |-> "null"]
Val(v) == [t |-> "value", v |-> v]
Json(S) == {Absent, Null} \cup {Val(v) : v \in S}

\* ids a request may name: every id the store can assign within MaxId,
\* assigned already, deleted again or not yet assigned
Ids == 1..MaxId

\* requests served in all by the two workers of SpecConc
MaxRequests == 3

\* largest id a request of SpecConc may name
MaxConcId == 1

\* worker processes serving requests of the statement-level specifications
Workers == {1, 2}

(* --------------------------- the database ----------------------------- *)
\* the empty table created by init_database; seq is sqlite_sequence.seq
EmptyDb == [rows |-> {}, seq |-> 0]

\* sqlite3 adapts a Python bool parameter to the integers 1 / 0
adapt_bool(b) == IF b THEN 1 ELSE 0

\* Python's bool(int) as used by row_to_todo
py_bool(i) == i # 0

Max2(a, b) == IF a >= b THEN a ELSE b

RECURSIVE MaxRowid(_)
MaxRowid(rows) ==
  IF rows = {} THEN 0
  ELSE LET r == CHOOSE x \in rows : TRUE
       IN Max2(r.todo_id, MaxRowid(rows \ {r}))

\* mutant: a plain INTEGER PRIMARY KEY, which reuses the largest rowid once
\* its row is deleted
NextRowid_NoAutoincrement(d) == MaxRowid(d.rows) + 1

\* mutant: the smallest rowid no row uses
NextRowid_FirstFree(d) ==
  CHOOSE i \in 1..(Cardinality(d.rows) + 1) :
    /\ \A r \in d.rows : r.todo_id # i
    /\ \A j \in 1..(i - 1) : \E r \in d.rows : r.todo_id = j

\* INTEGER PRIMARY KEY AUTOINCREMENT: one more than the largest rowid that
\* ever existed, which sqlite_sequence remembers across deletes
NextRowid(d) == Max2(MaxRowid(d.rows), d.seq) + 1

\* INSERT INTO todos (content, completed) VALUES (?, ?)
SqlInsert(d, content, completed) ==
  LET id == NextRowid(d)
  IN [rows |-> d.rows \cup {[todo_id |-> id, content |-> content,
                             completed |-> adapt_bool(completed)]},
      seq |-> id]

\* cursor.lastrowid after the INSERT
LastRowid(d) == d.seq

\* SELECT * FROM todos WHERE todo_id = ?  followed by fetchone():
\* <<>> stands for None, <<row>> for the row
SqlSelectOne(d, id) ==
  IF \E r \in d.rows : r.todo_id = id
  THEN << CHOOSE r \in d.rows : r.todo_id = id >>
  ELSE << >>

RECURSIVE OrderById_Desc(_)
\* mutant: ORDER BY todo_id DESC
OrderById_Desc(rows) ==
  IF rows = {} THEN << >>
  ELSE LET r == CHOOSE x \in rows : \A y \in rows : x.todo_id >= y.todo_id
       IN << r >> \o OrderById_Desc(rows \ {r})

RECURSIVE OrderById(_)
\* SELECT * FROM todos ORDER BY todo_id  followed by fetchall()
OrderById(rows) ==
  IF rows = {} THEN << >>
  ELSE LET r == CHOOSE x \in rows : \A y \in rows : x.todo_id <= y.todo_id
       IN << r >> \o OrderById(rows \ {r})

\* mutant: the UPDATE always sets both columns, a missing completed as 0
SqlUpdate_Replace(d, id, content, completed) ==
  [d EXCEPT !.rows =
     { IF r.todo_id = id
       THEN [todo_id   |-> r.todo_id,
             content   |-> IF content # << >> THEN content[1] ELSE r.content,
             completed |-> IF completed # << >> THEN adapt_bool(completed[1])
                                                ELSE 0]
       ELSE r : r \in d.rows }]

\* UPDATE todos SET <supplied fields> WHERE todo_id = ?
\* content and completed are optional (<<>> = not in the SET list)
SqlUpdate(d, id, content, completed) ==
  [d EXCEPT !.rows =
     { IF r.todo_id = id
       THEN [todo_id   |-> r.todo_id,
             content   |-> IF content # << >> THEN content[1] ELSE r.content,
             completed |-> IF completed # << >> THEN adapt_bool(completed[1])
                                                ELSE r.completed]
       ELSE r : r \in d.rows }]

\* DELETE FROM todos WHERE todo_id = ?
SqlDelete(d, id) == [d EXCEPT !.rows = {r \in d.rows : r.todo_id # id}]

\* cursor.rowcount after the DELETE
DeleteRowcount(d, id) == Cardinality({r \in d.rows : r.todo_id = id})

(* ------------------------- schemas and mapping ------------------------ *)
\* mutant: content required, without min_length
TodoCreate_NoMinLength(content, completed) ==
  content.t = "value" /\ completed.t # "null"

\* TodoCreate: content is a required str with min_length 1 and completed a
\* bool that may be left out; neither field accepts null
TodoCreate(content, completed) ==
  /\ content.t = "value"
  /\ Len(content.v) >= 1
  /\ completed.t # "null"

\* TodoCreate.completed defaults to False when the field is left out
CompletedOrDefault(completed) ==
  IF completed.t = "absent" THEN FALSE ELSE completed.v

\* mutant: content optional, without min_length
TodoUpdate_NoMinLength(content, completed) == TRUE

\* TodoUpdate: both fields Optional, content with min_length 1 when it has
\* a value
TodoUpdate(content, completed) == content.t = "value" => Len(content.v) >= 1

\* an Optional field of TodoUpdate after parsing: None (written << >>) when
\* it was left out or null, << v >> when it carried v
Parsed(field) == IF field.t = "value" THEN << field.v >> ELSE << >>

\* mutant: completed is left at the Todo schema's default
row_to_todo_DefaultCompleted(row) ==
  [todo_id |-> row.todo_id, content |-> row.content, completed |-> FALSE]

\* row_to_todo: Todo(todo_id, content, bool(completed))
row_to_todo(row) ==
  [todo_id |-> row.todo_id, content |-> row.content,
   completed |-> py_bool(row.completed)]

RECURSIVE MapRows(_)
\* [row_to_todo(row) for row in rows]
MapRows(rows) ==
  IF rows = << >> THEN << >>
  ELSE << row_to_todo(Head(rows)) >> \o MapRows(Tail(rows))

(* ------------------------- get_db_connection -------------------------- *)
\* what the body of a `with get_db_connection()` block leaves behind:
\* the connection's view of the database, the exception it raised ("none"
\* when it returned normally) and the response it computed
Outcome(work, exc, status, body) ==
  [work |-> work, exc |-> exc, status |-> status, body |-> body]

\* yield conn; conn.commit() / except: conn.rollback(); raise
\* the database file after the block: the body's writes when it returned
\* normally, the file as it was when it raised
get_db_connection(d, out) == IF out.exc = "none" THEN out.work ELSE d

\* FastAPI's mapping of what leaves the handler: the declared status_code on
\* a normal return, the HTTPException's status, 500 for any other exception
HttpStatus(out) ==
  IF out.exc \in {"none", "HTTPException"} THEN out.status ELSE 500

\* the response body: the returned model(s), nothing on an error
HttpBody(out) == IF out.exc = "none" THEN out.body ELSE << >>

\* return row_to_todo(row): row is None when the SELECT found nothing, and
\* None["todo_id"] raises TypeError
ReturnRow(work, row, status) ==
  IF row = << >> THEN Outcome(work, "TypeError", 500, << >>)
  ELSE Outcome(work, "none", status, << row_to_todo(row[1]) >>)

\* raise HTTPException(status_code=404, ...)
NotFound(work) == Outcome(work, "HTTPException", 404, << >>)

(* ------------------------------ handlers ------------------------------ *)
\* body of get_all_todos
get_all_todos(d) == Outcome(d, "none", 200, MapRows(OrderById(d.rows)))

\* body of get_todo
get_todo(d, todo_id) ==
  LET row == SqlSelectOne(d, todo_id)
  IN IF row = << >> THEN NotFound(d) ELSE ReturnRow(d, row, 200)

\* body of create_todo
create_todo(d, content, completed) ==
  LET d1  == SqlInsert(d, content, completed)
      row == SqlSelectOne(d1, LastRowid(d1))
  IN ReturnRow(d1, row, 201)

\* body of update_todo
update_todo(d, todo_id, content, completed) ==
  IF SqlSelectOne(d, todo_id) = << >> THEN NotFound(d)
  ELSE LET d1 == IF content # << >> \/ completed # << >>
                 THEN SqlUpdate(d, todo_id, content, completed)
                 ELSE d
       IN ReturnRow(d1, SqlSelectOne(d1, todo_id), 200)

\* body of delete_todo
delete_todo(d, todo_id) ==
  LET d1 == SqlDelete(d, todo_id)
  IN IF DeleteRowcount(d, todo_id) = 0 THEN NotFound(d1)
     ELSE Outcome(d1, "none", 204, << >>)

(* ------------------------------- state -------------------------------- *)
VARIABLES
  db,         \* the committed content of todos.db
  req,        \* Spec: the request served last
  resp,       \* Spec: its response [status, body]
  issued,     \* Spec, history: ids returned by successful Create requests
  deleted,    \* Spec, history: ids removed by successful Delete requests
  prevCreated,\* Spec, history: << the Todo the request before the last one
              \* returned >> when that request was a successful Create
  wk,         \* statement level: per worker, its request and connection
  lock,       \* statement level: worker holding SQLite's write lock, 0 if none
  overlap,    \* statement level, history: "pair" while the requests in
              \* flight or served last are two that overlapped in time and
              \* no third one ran beside them, "more" if a third did
  base,       \* statement level, history: db when the overlap began
  lastCommit, \* statement level, history: worker whose write committed last
  served      \* SpecConc: number of requests accepted so far

vars == << db, req, resp, issued, deleted, prevCreated, wk, lock, overlap, base, lastCommit,
           served >>

seqVars == << req, resp, issued, deleted, prevCreated >>
stmtVars == << wk, lock, overlap, base, lastCommit, served >>

Request(op, id, content, completed) ==
  [op |-> op, id |-> id, content |-> content, completed |-> completed]

NoRequest == Request("none", 0, Absent, Absent)

\* a worker between requests, before it served any
IdleWorker ==
  [pc |-> "idle", rq |-> NoRequest, open |-> FALSE, in_tx |-> FALSE,
   work |-> EmptyDb, exc |-> "none", status |-> 0, body |-> << >>,
   snap |-> EmptyDb, bodyOk |-> FALSE, commits |-> 0, rollbacks |-> 0,
   committed |-> FALSE, failedAt |-> "none", shared |-> FALSE]

\* startup_event: init_database() has created the empty table
Init ==
  /\ db = EmptyDb
  /\ req = NoRequest
  /\ resp = [status |-> 0, body |-> << >>]
  /\ issued = {}
  /\ deleted = {}
  /\ prevCreated = << >>
  /\ wk = [p \in Workers |-> IdleWorker]
  /\ lock = 0
  /\ overlap = "none"
  /\ base = EmptyDb
  /\ lastCommit = 0
  /\ served = 0

(* ------------------- Spec: one request per action --------------------- *)
\* history: what the request served last returned, if it was a Create
Remember ==
  prevCreated' = IF req.op = "create" /\ resp.status = 201 THEN resp.body
                 ELSE << >>

\* the request runs the handler body inside get_db_connection
Serve(rq, out) ==
  /\ req' = rq
  /\ db' = get_db_connection(db, out)
  /\ resp' = [status |-> HttpStatus(out), body |-> HttpBody(out)]
  /\ Remember

\* request validation failed: 422 before the handler is called
Reject(rq) ==
  /\ req' = rq
  /\ db' = db
  /\ resp' = [status |-> 422, body |-> << >>]
  /\ Remember

\* GET /todos
ListTodos ==
  /\ Serve(Request("list", 0, Absent, Absent), get_all_todos(db))
  /\ UNCHANGED << issued, deleted, stmtVars >>

\* GET /todos/{todo_id}
GetTodo ==
  \E id \in Ids :
    /\ Serve(Request("get", id, Absent, Absent), get_todo(db, id))
    /\ UNCHANGED << issued, deleted, stmtVars >>

\* POST /todos
CreateTodo ==
  \E content \in Json(Contents), completed \in Json(BOOLEAN) :
    LET rq  == Request("create", 0, content, completed)
        out == create_todo(db, content.v, CompletedOrDefault(completed))
    IN /\ NextRowid(db) <= MaxId
       /\ IF TodoCreate(content, completed)
          THEN /\ Serve(rq, out)
               /\ issued' = IF out.exc = "none"
                            THEN issued \cup {out.body[1].todo_id}
                            ELSE issued
          ELSE /\ Reject(rq)
               /\ issued' = issued
       /\ UNCHANGED << deleted, stmtVars >>

\* PUT /todos/{todo_id}
UpdateTodo ==
  \E id \in Ids, content \in Json(Contents), completed \in Json(BOOLEAN) :
    LET rq == Request("update", id, content, completed)
    IN /\ IF TodoUpdate(content, completed)
          THEN Serve(rq, update_todo(db, id, Parsed(content),
                                     Parsed(completed)))
          ELSE Reject(rq)
       /\ UNCHANGED << issued, deleted, stmtVars >>

\* DELETE /todos/{todo_id}
DeleteTodo ==
  \E id \in Ids :
    LET out == delete_todo(db, id)
    IN /\ Serve(Request("delete", id, Absent, Absent), out)
       /\ deleted' = IF out.exc = "none" THEN deleted \cup {id} ELSE deleted
       /\ UNCHANGED << issued, stmtVars >>

\* one event loop: the requests are served one after the other
Next == ListTodos \/ GetTodo \/ CreateTodo \/ UpdateTodo \/ DeleteTodo

Spec == Init /\ [][Next]_vars

(* ------------- statement level: one action per statement -------------- *)
\* what worker p's connection reads: its own uncommitted writes inside a
\* transaction, the committed file otherwise
View(p) == IF wk[p].in_tx THEN wk[p].work ELSE db

Busy(p) == wk[p].pc # "idle"

\* requests a client may send
Requests ==
  {Request("list", 0, Absent, Absent)}
  \cup {Request("get", id, Absent, Absent) : id \in Ids}
  \cup {Request("delete", id, Absent, Absent) : id \in Ids}
  \cup {Request("create", 0, c, b) : c \in Json(Contents), b \in Json(BOOLEAN)}
  \cup {Request("update", id[1], c, b) :
          id \in {<<i>> : i \in Ids}, c \in Json(Contents), b \in Json(BOOLEAN)}

\* the requests the clients of SpecConc send: every combination of supplied
\* fields for an Update, fewer variants of the other requests
ConcRequests ==
  {rq \in Requests :
     /\ rq.id <= MaxConcId
     /\ rq.content # Null /\ rq.completed # Null
     /\ rq.op = "create" => rq.content = Val("a") /\ rq.completed = Absent
     /\ rq.op = "update" => rq.content # Val("")}

\* pydantic validation of the request body
ValidRequest(rq) ==
  CASE rq.op = "create" -> TodoCreate(rq.content, rq.completed)
    [] rq.op = "update" -> TodoUpdate(rq.content, rq.completed)
    [] OTHER -> TRUE

\* the first statement of each handler
FirstPc(op) ==
  CASE op = "list"   -> "list_select"
    [] op = "get"    -> "get_select"
    [] op = "create" -> "create_insert"
    [] op = "update" -> "update_check"
    [] op = "delete" -> "delete_exec"

\* room left under MaxId for one more INSERT, counting the ones in flight
RoomToCreate ==
  NextRowid(db)
    + Cardinality({q \in Workers : Busy(q) /\ wk[q].rq.op = "create"}) <= MaxId

\* a request arrives at an idle worker; a valid one enters its handler, which
\* opens the connection: conn = sqlite3.connect(DATABASE_FILE)
Start(p, RS) ==
  \E rq \in RS :
    /\ ~Busy(p)
    /\ rq.op = "create" => RoomToCreate
    /\ wk' = [wk EXCEPT ![p] =
         IF ValidRequest(rq)
         THEN [IdleWorker EXCEPT !.pc = FirstPc(rq.op), !.rq = rq,
                                 !.open = TRUE, !.snap = db]
         ELSE [IdleWorker EXCEPT !.rq = rq, !.status = 422]]
    /\ overlap' = IF ~ValidRequest(rq) THEN overlap
                   ELSE IF \A q \in Workers \ {p} : ~Busy(q) THEN "none"
                   ELSE IF overlap = "none" THEN "pair"
                   ELSE "more"
    /\ base' = IF ~ValidRequest(rq) THEN base
                ELSE IF overlap' = "pair" THEN db ELSE EmptyDb
    /\ lastCommit' = IF ~ValidRequest(rq) \/ overlap' = "pair"
                      THEN lastCommit ELSE 0
    /\ UNCHANGED << db, lock, seqVars >>

\* conn.commit() gave up waiting for a reader: until conn.rollback() the
\* connection keeps the transaction and SQLite's pending lock, which
\* admits no new reader
HoldsPending(q) ==
  wk[q].pc = "rollback" /\ wk[q].failedAt = "commit" /\ wk[q].in_tx

\* a SELECT can run: inside the worker's own transaction, or when the
\* worker already has the shared read lock (wk[p].shared: its SELECT is the
\* one a commit gave up waiting for), or when no other connection keeps a
\* pending lock
CanRead(p) ==
  \/ wk[p].in_tx
  \/ wk[p].shared
  \/ \A q \in Workers \ {p} : ~HoldsPending(q)

\* the body ends after a SELECT: with a return (next is conn.commit()) or
\* with an exception (next is the except clause)
Finish(p, out) ==
  wk' = [wk EXCEPT ![p].shared = FALSE,
                   ![p].exc = out.exc, ![p].status = out.status,
                   ![p].body = out.body, ![p].bodyOk = (out.exc = "none"),
                   ![p].pc = IF out.exc = "none" THEN "commit" ELSE "rollback"]

\* mutant: a store without a write lock, each connection writing back its
\* own copy of the file
Write_NoLock(p, d1, pc1) ==
  /\ lock' = p
  /\ wk' = [wk EXCEPT ![p].in_tx = TRUE, ![p].work = d1, ![p].pc = pc1]

\* an INSERT / UPDATE / DELETE: the sqlite3 module opens a transaction
\* before it and SQLite takes the file's write lock, waiting in its busy
\* handler (sqlite3.connect's default timeout of 5 seconds) while another
\* connection holds it; the statement runs once the lock is free, and
\* BusyTimeout is the end of a wait that outlasts the timeout (as it is for
\* the waits of a commit and of a SELECT)
Write(p, d1, pc1) ==
  /\ lock \in {0, p}
  /\ lock' = p
  /\ wk' = [wk EXCEPT ![p].in_tx = TRUE, ![p].work = d1, ![p].pc = pc1]

\* get_all_todos: SELECT ... ORDER BY todo_id; return [row_to_todo ...]
ListSelect(p) ==
  /\ wk[p].pc = "list_select"
  /\ CanRead(p)
  /\ Finish(p, get_all_todos(View(p)))
  /\ UNCHANGED << db, lock, overlap, base, lastCommit, seqVars, served >>

\* get_todo: SELECT, 404 or return row_to_todo(row)
GetSelect(p) ==
  /\ wk[p].pc = "get_select"
  /\ CanRead(p)
  /\ Finish(p, get_todo(View(p), wk[p].rq.id))
  /\ UNCHANGED << db, lock, overlap, base, lastCommit, seqVars, served >>

\* create_todo: the INSERT
CreateInsert(p) ==
  /\ wk[p].pc = "create_insert"
  /\ Write(p, SqlInsert(View(p), wk[p].rq.content.v,
                        CompletedOrDefault(wk[p].rq.completed)),
           "create_select")
  /\ UNCHANGED << db, overlap, base, lastCommit, seqVars, served >>

\* create_todo: the re-read by lastrowid and the return
CreateSelect(p) ==
  /\ wk[p].pc = "create_select"
  /\ Finish(p, ReturnRow(View(p), SqlSelectOne(View(p), LastRowid(View(p))),
                         201))
  /\ UNCHANGED << db, lock, overlap, base, lastCommit, seqVars, served >>

\* update_todo: the existence check, then the building of the SET list
UpdateCheck(p) ==
  /\ wk[p].pc = "update_check"
  /\ CanRead(p)
  /\ IF SqlSelectOne(View(p), wk[p].rq.id) = << >>
     THEN Finish(p, NotFound(View(p)))
     ELSE wk' = [wk EXCEPT ![p].shared = FALSE, ![p].pc =
                   IF Parsed(wk[p].rq.content) # << >>
                      \/ Parsed(wk[p].rq.completed) # << >>
                   THEN "update_exec" ELSE "update_select"]
  /\ UNCHANGED << db, lock, overlap, base, lastCommit, seqVars, served >>

\* update_todo: the UPDATE
UpdateExec(p) ==
  /\ wk[p].pc = "update_exec"
  /\ Write(p, SqlUpdate(View(p), wk[p].rq.id, Parsed(wk[p].rq.content),
                        Parsed(wk[p].rq.completed)),
           "update_select")
  /\ UNCHANGED << db, overlap, base, lastCommit, seqVars, served >>

\* update_todo: the re-read and the return
UpdateSelect(p) ==
  /\ wk[p].pc = "update_select"
  /\ CanRead(p)
  /\ Finish(p, ReturnRow(View(p), SqlSelectOne(View(p), wk[p].rq.id), 200))
  /\ UNCHANGED << db, lock, overlap, base, lastCommit, seqVars, served >>

\* delete_todo: the DELETE and the rowcount test
DeleteExec(p) ==
  /\ wk[p].pc = "delete_exec"
  /\ lock \in {0, p}
  /\ lock' = p
  /\ LET out == delete_todo(View(p), wk[p].rq.id)
     IN wk' = [wk EXCEPT ![p].in_tx = TRUE, ![p].work = out.work,
                         ![p].exc = out.exc, ![p].status = out.status,
                         ![p].body = out.body,
                         ![p].bodyOk = (out.exc = "none"),
                         ![p].pc = IF out.exc = "none" THEN "commit"
                                                       ELSE "rollback"]
  /\ UNCHANGED << db, overlap, base, lastCommit, seqVars, served >>

\* get_db_connection: conn.commit() after the body returned; the commit of
\* a transaction waits for the readers that have the shared lock
Commit(p) ==
  /\ wk[p].pc = "commit"
  /\ wk[p].in_tx => \A q \in Workers \ {p} : ~wk[q].shared
  /\ db' = View(p)
  /\ lock' = IF lock = p THEN 0 ELSE lock
  /\ lastCommit' = IF wk[p].in_tx THEN p ELSE lastCommit
  /\ wk' = [wk EXCEPT ![p].in_tx = FALSE, ![p].work = EmptyDb,
                      ![p].commits = @ + 1, ![p].committed = TRUE,
                      ![p].pc = "close"]
  /\ UNCHANGED << overlap, base, seqVars, served >>

\* mutant: the except clause commits what the body wrote before it failed
Rollback_Commits(p) ==
  /\ wk[p].pc = "rollback"
  /\ db' = View(p)
  /\ lock' = IF lock = p THEN 0 ELSE lock
  /\ wk' = [wk EXCEPT ![p].in_tx = FALSE, ![p].work = EmptyDb,
                      ![p].rollbacks = @ + 1, ![p].pc = "close"]
  /\ UNCHANGED << overlap, base, lastCommit, seqVars, served >>

\* get_db_connection: except Exception: conn.rollback(); raise
Rollback(p) ==
  /\ wk[p].pc = "rollback"
  /\ lock' = IF lock = p THEN 0 ELSE lock
  /\ wk' = [wk EXCEPT ![p].in_tx = FALSE, ![p].work = EmptyDb,
                      ![p].rollbacks = @ + 1, ![p].pc = "close"]
  /\ UNCHANGED << db, overlap, base, lastCommit, seqVars, served >>

\* get_db_connection: finally: conn.close(); the response leaves the worker
Close(p) ==
  /\ wk[p].pc = "close"
  /\ wk' = [wk EXCEPT ![p].open = FALSE, ![p].pc = "idle",
                      ![p].status = HttpStatus(wk[p]),
                      ![p].body = HttpBody(wk[p])]
  /\ UNCHANGED << db, lock, overlap, base, lastCommit, seqVars, served >>

StatementPcs ==
  {"list_select", "get_select", "create_insert", "create_select",
   "update_check", "update_exec", "update_select", "delete_exec"}

\* a storage failure: the statement about to run, or the commit, raises
\* sqlite3.OperationalError instead of taking effect
Fail(p) ==
  /\ wk[p].pc \in StatementPcs \cup {"commit"}
  /\ wk' = [wk EXCEPT ![p].exc = "OperationalError", ![p].status = 500,
                      ![p].body = << >>,
                      ![p].commits = IF wk[p].pc = "commit" THEN @ + 1 ELSE @,
                      ![p].failedAt = wk[p].pc,
                      ![p].pc = "rollback"]
  /\ UNCHANGED << db, lock, overlap, base, lastCommit, seqVars, served >>

\* A worker at a statement may be part way through it.
\* Between execute() and fetchone()/fetchall() a SELECT outside a
\* transaction that found a row keeps SQLite's shared read lock.
MidRead(q) ==
  /\ ~wk[q].in_tx
  /\ \/ wk[q].pc = "list_select" /\ db.rows # {}
     \/ /\ wk[q].pc \in {"get_select", "update_check", "update_select"}
        /\ SqlSelectOne(db, wk[q].rq.id) # << >>

\* conn.commit() of a transaction that wrote takes the file's exclusive lock
MidCommit(q) == wk[q].pc = "commit" /\ wk[q].in_tx

\* the places where worker p waits in SQLite's busy handler for another
\* connection: a write for the write lock, a commit for the readers to
\* finish, a SELECT that has no lock yet for a commit to finish or for a
\* commit that gave up to be rolled back
LockedOut(p) ==
  \/ /\ wk[p].pc \in {"create_insert", "update_exec", "delete_exec"}
     /\ lock \notin {0, p}
  \/ /\ MidCommit(p)
     /\ \E q \in Workers \ {p} : MidRead(q)
  \/ /\ wk[p].pc \in {"list_select", "get_select", "update_check",
                       "update_select"}
     /\ ~wk[p].in_tx /\ ~wk[p].shared
     /\ \E q \in Workers \ {p} : MidCommit(q) \/ HoldsPending(q)

\* the wait outlasts the connection's timeout: the statement, or the commit,
\* raises sqlite3.OperationalError (database is locked); the readers a
\* commit gave up waiting for have the shared lock
BusyTimeout(p) ==
  /\ LockedOut(p)
  /\ wk' = [q \in Workers |->
             IF q = p
             THEN [wk[p] EXCEPT !.exc = "OperationalError", !.status = 500,
                     !.body = << >>, !.failedAt = wk[p].pc,
                     !.commits = IF wk[p].pc = "commit" THEN @ + 1 ELSE @,
                     !.pc = "rollback"]
             ELSE IF wk[p].pc = "commit" /\ MidRead(q)
                  THEN [wk[q] EXCEPT !.shared = TRUE]
                  ELSE wk[q]]
  /\ UNCHANGED << db, lock, overlap, base, lastCommit, seqVars, served >>

Step(p) ==
  \/ ListSelect(p)
  \/ GetSelect(p)
  \/ CreateInsert(p)
  \/ CreateSelect(p)
  \/ UpdateCheck(p)
  \/ UpdateExec(p)
  \/ UpdateSelect(p)
  \/ DeleteExec(p)
  \/ Commit(p)
  \/ Rollback(p)
  \/ Close(p)

\* one worker, storage failures possible
NextFault == (Start(1, Requests) /\ UNCHANGED served) \/ Step(1) \/ Fail(1)

SpecFault == Init /\ [][NextFault]_vars

\* two workers on the same file; the only storage failure is the timeout
\* of a wait for a lock of the other
NextConc ==
  \E p \in Workers :
    \/ served < MaxRequests /\ Start(p, ConcRequests) /\ served' = served + 1
    \/ Step(p)
    \/ BusyTimeout(p)

SpecConc == Init /\ [][NextConc]_vars

(* ======================= properties of Spec =========================== *)
RowIds(d) == {r.todo_id : r \in d.rows}

\* the Todo a stored row is served as
TodoOf(d, id) == row_to_todo(CHOOSE r \in d.rows : r.todo_id = id)

\* C1: a Create with non-empty content c and completed b (false when
\* omitted) returns 201 with a record of content c, completed b and a
\* positive todo_id, and a Get of that todo_id served next returns 200 with
\* exactly that record.
C1_CreateThenGet ==
  /\ (req.op = "create" /\ req.content.t = "value" /\ req.content.v # ""
        /\ req.completed.t # "null") =>
       /\ resp.status = 201
       /\ Len(resp.body) = 1
       /\ resp.body[1].content = req.content.v
       /\ resp.body[1].completed =
            (IF req.completed.t = "absent" THEN FALSE ELSE req.completed.v)
       /\ resp.body[1].todo_id > 0
  /\ (prevCreated # << >> /\ req.op = "get"
        /\ req.id = prevCreated[1].todo_id) =>
       /\ resp.status = 200
       /\ resp.body = prevCreated

C1_Witness ==
  /\ prevCreated # << >>
  /\ prevCreated[1].completed = TRUE
  /\ prevCreated[1].content = "b"
  /\ req.op = "get"
  /\ req.id = prevCreated[1].todo_id
  /\ resp.status = 200

\* C2: once a Delete of an id succeeded, no row with that id is ever
\* persisted again, every later Get, Update and Delete of that id that
\* reaches its handler answers 404, and the successful Delete removes
\* exactly the row with that id, all other rows staying as they were.
C2_DeleteIsPermanent ==
  [][ /\ \A r \in db'.rows : r.todo_id \notin deleted'
      /\ (req'.op \in {"get", "update", "delete"} /\ req'.id \in deleted
            /\ ValidRequest(req')) =>
           (resp'.status = 404 /\ db' = db)
      /\ (req'.op = "delete" /\ resp'.status = 204) =>
           /\ req'.id \in RowIds(db)
           /\ db'.rows = {r \in db.rows : r.todo_id # req'.id}
    ]_vars

C2_Witness ==
  /\ req.op = "update"
  /\ req.id \in deleted
  /\ req.content = Val("a")
  /\ resp.status = 404
  /\ db.rows # {}
  /\ db.seq = MaxId

\* C3: a successful Update of an existing id changes exactly the supplied
\* fields of that row: an absent field keeps its value, the todo_id stays,
\* every other row and the id counter stay, the response is the stored row,
\* and with no field supplied the database is not changed at all.  An Update
\* of an existing id with valid fields does succeed.
C3_UpdateFrame ==
  [][ (req'.op = "update" /\ ValidRequest(req')) =>
        IF req'.id \in RowIds(db)
        THEN LET old == TodoOf(db, req'.id)
                 new == TodoOf(db', req'.id)
             IN /\ resp'.status = 200
                /\ RowIds(db') = RowIds(db)
                /\ new.content = IF req'.content.t = "value"
                                 THEN req'.content.v ELSE old.content
                /\ new.completed = IF req'.completed.t = "value"
                                   THEN req'.completed.v ELSE old.completed
                /\ \A r \in db.rows : r.todo_id # req'.id => r \in db'.rows
                /\ Cardinality(db'.rows) = Cardinality(db.rows)
                /\ db'.seq = db.seq
                /\ resp'.body = << new >>
                /\ (req'.content.t # "value" /\ req'.completed.t # "value")
                     => db' = db
        ELSE resp'.status = 404 /\ db' = db
    ]_vars

C3_Witness ==
  /\ req.op = "update"
  /\ req.content = Absent
  /\ req.completed = Val(FALSE)
  /\ resp.status = 200
  /\ resp.body[1].content = "b"
  /\ Cardinality(db.rows) >= 2
  /\ \E r \in db.rows : r.completed = 1

\* C4: a Create whose content is empty or missing is answered 422 and
\* leaves the persisted rows and the next id to be assigned as they were.
C4_RejectedCreate ==
  [][ (req'.op = "create"
         /\ ~(req'.content.t = "value" /\ req'.content.v # ""))
        => /\ resp'.status = 422
           /\ db'.rows = db.rows
           /\ NextRowid(db') = NextRowid(db)
    ]_vars

C4_Witness ==
  /\ req.op = "create"
  /\ req.content = Val("")
  /\ resp.status = 422
  /\ db.rows # {}

\* C5: no two persisted rows share a todo_id, a successful Create returns an
\* id greater than every id an earlier Create returned (deleted or not),
\* and a row's id appears only by a Create: no other request adds an id
\* to the table.
C5_IdsUniqueIncreasing ==
  [][ /\ \A r1, r2 \in db'.rows : r1.todo_id = r2.todo_id => r1 = r2
      /\ (req'.op = "create" /\ resp'.status = 201) =>
           /\ \A i \in issued : resp'.body[1].todo_id > i
           /\ RowIds(db') = RowIds(db) \cup {resp'.body[1].todo_id}
      /\ ~(req'.op = "create" /\ resp'.status = 201) =>
           RowIds(db') \subseteq RowIds(db)
      /\ (req'.op = "update") => RowIds(db') = RowIds(db)
    ]_vars

C5_Witness ==
  /\ req.op = "create"
  /\ resp.status = 201
  /\ resp.body[1].todo_id = MaxId
  /\ deleted # {}
  /\ db.rows = {r \in db.rows : r.todo_id = MaxId}

\* C6: List answers 200 with exactly the persisted rows, each once, in
\* strictly ascending todo_id order, the empty list on an empty table, and
\* leaves the database unchanged.
C6_ListAll ==
  [][ (req'.op = "list") =>
        /\ resp'.status = 200
        /\ db' = db
        /\ Len(resp'.body) = Cardinality(db.rows)
        /\ {resp'.body[i] : i \in 1..Len(resp'.body)}
             = {row_to_todo(r) : r \in db.rows}
        /\ \A i, j \in 1..Len(resp'.body) :
             i < j => resp'.body[i].todo_id < resp'.body[j].todo_id
        /\ (db.rows = {}) => resp'.body = << >>
    ]_vars

C6_Witness ==
  /\ req.op = "list"
  /\ resp.status = 200
  /\ Len(resp.body) = 2
  /\ resp.body[1].todo_id = 1
  /\ resp.body[2].todo_id = 2
  /\ resp.body[1].completed /\ ~resp.body[2].completed

\* C7: every persisted row has non-empty content, whatever requests were
\* served; an Update carrying empty content is rejected and changes nothing.
C7_ContentNonEmpty == \A r \in db.rows : Len(r.content) >= 1

C7_Witness ==
  /\ req.op = "update"
  /\ req.content = Val("")
  /\ req.id \in RowIds(db)
  /\ resp.status = 422

(* ===================== properties of SpecFault ======================== *)
\* worker p has served a request that entered its handler
Served(p) == ~Busy(p) /\ wk[p].rq.op # "none" /\ wk[p].status # 422

\* C8: when a scoped operation has ended its connection is closed and no
\* transaction or lock is left; conn.commit() was called exactly when the
\* body returned normally and took effect unless it failed itself; after
\* any failure (of a statement, of a statement after an earlier write, of
\* the commit) the rollback ran once, the failure went out as the error
\* response, and the database is the one the operation started from.
\* Before its commit an operation changes nothing in the database.
C8_ScopedConnection ==
  \A p \in Workers :
    /\ (Busy(p) /\ ~wk[p].committed) => db = wk[p].snap
    /\ ~wk[p].open => (~wk[p].in_tx /\ lock # p)
    /\ Served(p) =>
         /\ ~wk[p].open
         /\ wk[p].commits = (IF wk[p].bodyOk THEN 1 ELSE 0)
         /\ wk[p].committed = (wk[p].bodyOk /\ wk[p].exc = "none")
         /\ wk[p].rollbacks = (IF wk[p].exc = "none" THEN 0 ELSE 1)
         /\ (wk[p].exc # "none") =>
              /\ db = wk[p].snap
              /\ wk[p].status \in {404, 500}
              /\ wk[p].body = << >>
         /\ (wk[p].exc = "none") => wk[p].status \in {200, 201, 204}

C8_Witness ==
  /\ Served(1)
  /\ wk[1].rq.op = "create"
  /\ wk[1].failedAt = "create_select"
  /\ wk[1].status = 500
  /\ wk[1].rollbacks = 1
  /\ db = wk[1].snap
  /\ db.rows # {}

(* ====================== properties of SpecConc ======================== *)
\* the stored row of an id, as a one-row table
RowsOf(d, id) == {r \in d.rows : r.todo_id = id}

\* two Updates of the same existing id that overlapped in time, both served,
\* with no third request beside them
UpdatePair(p, q) ==
  /\ p # q
  /\ overlap = "pair"
  /\ Served(p) /\ Served(q)
  /\ wk[p].rq.op = "update" /\ wk[q].rq.op = "update"
  /\ wk[p].rq.id = wk[q].rq.id
  /\ RowsOf(base, wk[p].rq.id) # {}

\* the fields worker p's Update supplies, parsed
UContent(p) == Parsed(wk[p].rq.content)
UCompleted(p) == Parsed(wk[p].rq.completed)

\* the database after p's Update alone, from the database d
Alone(d, p) == SqlUpdate(d, wk[p].rq.id, UContent(p), UCompleted(p))

\* the database after p's Update and then q's, from the database d
Serial(d, p, q) == Alone(Alone(d, p), q)

\* a field both supplied holds the value of the Update that committed last,
\* a field only one supplied holds that one's value, and the database is
\* what one of the two serial orders makes of the database before them
LastWriteWins(p, q) ==
  /\ Cardinality(RowsOf(db, wk[p].rq.id)) = 1
  /\ LET row == TodoOf(db, wk[p].rq.id)
     IN /\ (UContent(p) # << >> /\ UContent(q) # << >>) =>
             /\ lastCommit \in {p, q}
             /\ row.content = UContent(lastCommit)[1]
        /\ (UCompleted(p) # << >> /\ UCompleted(q) # << >>) =>
             /\ lastCommit \in {p, q}
             /\ row.completed = UCompleted(lastCommit)[1]
        /\ (UContent(p) # << >> /\ UContent(q) = << >>) =>
             row.content = UContent(p)[1]
        /\ (UCompleted(p) # << >> /\ UCompleted(q) = << >>) =>
             row.completed = UCompleted(p)[1]
  /\ \/ db = Serial(base, p, q)
     \/ db = Serial(base, q, p)

\* C9 as stated: after any two concurrent Updates of the same existing id
\* have completed, a field both supplied holds the value of the Update that
\* committed last, a field only one supplied holds that one's value, and
\* the stored row is one a serial order of the two produces.
C9_AsStated ==
  \A p, q \in Workers : UpdatePair(p, q) => LastWriteWins(p, q)

\* C9 amended: each of two concurrent Updates of the same existing id ends
\* with 200 or, when it gave up waiting for the other's lock (at a SELECT,
\* at its UPDATE or at its commit), with 500 and nothing written.  When both answer 200 the last committed write wins as
\* stated; when one answers 500 the database is what the other alone makes
\* of the database before them.
C9_LastWriteWins ==
  \A p, q \in Workers :
    UpdatePair(p, q) =>
      /\ wk[p].status \in {200, 500}
      /\ (wk[p].status = 200 /\ wk[q].status = 200) => LastWriteWins(p, q)
      /\ (wk[p].status = 200 /\ wk[q].status = 500) =>
           /\ wk[q].exc = "OperationalError"
           /\ wk[q].failedAt \in {"update_check", "update_exec",
                                   "update_select", "commit"}
           /\ ~wk[q].committed
           /\ db = Alone(base, p)
      /\ (wk[p].status = 500 /\ wk[q].status = 500) =>
           /\ wk[p].exc = "OperationalError"
           /\ wk[q].exc = "OperationalError"
           /\ ~wk[p].committed /\ ~wk[q].committed
           /\ db = base

C9_Witness ==
  /\ UpdatePair(1, 2)
  /\ wk[1].status = 200 /\ wk[2].status = 200
  /\ wk[1].rq.content = Val("b") /\ wk[1].rq.completed = Val(TRUE)
  /\ wk[2].rq.content = Val("a") /\ wk[2].rq.completed = Absent
  /\ lastCommit = 2
  /\ wk[1].body[1].content = "b"
  /\ TodoOf(db, wk[1].rq.id).content = "a"
  /\ TodoOf(db, wk[1].rq.id).completed = TRUE
  /\ db # Serial(base, 2, 1)

\* C10: an Update that entered its handler, whatever runs concurrently,
\* ends with 404 or with 200 and the record of its id; the only other end
\* allowed for here is the storage failure of a statement or commit that
\* gave up waiting for a lock (500 after the rollback), so that a violation
\* is a failure of update_todo itself.
C10_UpdateNotFoundOrRecord ==
  \A p \in Workers :
    (Served(p) /\ wk[p].rq.op = "update") =>
      \/ wk[p].status = 404
      \/ /\ wk[p].status = 200
         /\ Len(wk[p].body) = 1
         /\ wk[p].body[1].todo_id = wk[p].rq.id
      \/ /\ wk[p].status = 500
         /\ wk[p].exc = "OperationalError"

====
